---------------------------- MODULE Spec2Model ----------------------------
(***************************************************************************)
(* Model of tools/bibtex_to_json.py: the BibTeX scanner (parse_bibtex and  *)
(* its helpers), the projection of an entry to a publication record        *)
(* (entry_to_publication) and main (sort, the JSON file, the .js file).    *)
(*                                                                         *)
(* A text is a sequence of one-character strings; positions are 0-based,   *)
(* as in the source: At(s, i) is s[i] and Slice(s, a, b) is s[a:b].        *)
(***************************************************************************)
EXTENDS Integers, Sequences, FiniteSets, TLC

(***************************************************************************)
(* Characters                                                              *)
(***************************************************************************)
LowerLetters ==
  <<"a","b","c","d","e","f","g","h","i","j","k","l","m",
    "n","o","p","q","r","s","t","u","v","w","x","y","z">>

UpperLetters ==
  <<"A","B","C","D","E","F","G","H","I","J","K","L","M",
    "N","O","P","Q","R","S","T","U","V","W","X","Y","Z">>

Digits == <<"0","1","2","3","4","5","6","7","8","9">>

\* The printable ASCII characters in code-point order, from 32 (space). The
\* grave accent (96) cannot be written in a string here: "grave" holds its
\* place, and no text of the model contains it.
Printable ==
  <<" ","!","\"","#","$","%","&","'","(",")","*","+",",","-",".","/",
    "0","1","2","3","4","5","6","7","8","9",":",";","<","=",">","?",
    "@","A","B","C","D","E","F","G","H","I","J","K","L","M","N","O",
    "P","Q","R","S","T","U","V","W","X","Y","Z","[","\\","]","^","_",
    "grave","a","b","c","d","e","f","g","h","i","j","k","l","m","n","o",
    "p","q","r","s","t","u","v","w","x","y","z","{","|","}","~">>

Range(s) == {s[k] : k \in DOMAIN s}

LowerSet == Range(LowerLetters)

UpperSet == Range(UpperLetters)

DigitSet == Range(Digits)

\* The white space of the model's texts (str.isspace, the regex class \s).
SpaceSet == {" ", "\t", "\n", "\r", "\f"}

IsSpace(c) == c \in SpaceSet

\* The regex class [A-Za-z].
AlphaSet == LowerSet \cup UpperSet

IsAlpha(c) == c \in AlphaSet

\* The regex class \d.
IsDigit(c) == c \in DigitSet

\* The regex class [A-Za-z0-9_\-].
NameCharSet == AlphaSet \cup DigitSet \cup {"_", "-"}

IsNameChar(c) == c \in NameCharSet

IndexIn(tab, c) == CHOOSE k \in DOMAIN tab : tab[k] = c

\* The code point of a character (ord).
Ord(c) ==
  IF c = "\t" THEN 9
  ELSE IF c = "\n" THEN 10
  ELSE IF c = "\f" THEN 12
  ELSE IF c = "\r" THEN 13
  ELSE 31 + IndexIn(Printable, c)

LowerChar(c) == IF c \in UpperSet THEN LowerLetters[IndexIn(UpperLetters, c)] ELSE c

\* str.lower
Lower(s) == [k \in DOMAIN s |-> LowerChar(s[k])]

DigitVal(c) == IndexIn(Digits, c) - 1

(***************************************************************************)
(* Strings                                                                 *)
(***************************************************************************)
Min2(a, b) == IF a < b THEN a ELSE b

Max2(a, b) == IF a > b THEN a ELSE b

\* s[i]
At(s, i) == s[i + 1]

\* s[a:b] for a >= 0 (a slice clamps to the text and is empty when b <= a)
Slice(s, a, b) == SubSeq(s, Min2(Max2(a, 0), Len(s)) + 1, Min2(Max2(b, 0), Len(s)))

\* The first position k >= i with s[k] in stop, or len(s): where a loop
\* "while k < len(s) and s[k] not in stop: k += 1" entered at i ends.
FirstIn(s, i, stop) ==
  IF i >= Len(s) THEN i
  ELSE CHOOSE k \in i .. Len(s) :
         /\ k = Len(s) \/ At(s, k) \in stop
         /\ \A m \in i .. k - 1 : At(s, m) \notin stop

\* The first position k >= i with s[k] not in skip, or len(s): where a loop
\* "while k < len(s) and s[k] in skip: k += 1" entered at i ends.
FirstNotIn(s, i, skip) ==
  IF i >= Len(s) THEN i
  ELSE CHOOSE k \in i .. Len(s) :
         /\ k = Len(s) \/ At(s, k) \notin skip
         /\ \A m \in i .. k - 1 : At(s, m) \in skip

\* The least e <= hi with all of s[e:hi] in drop: where a loop
\* "while e > 0 and s[e-1] in drop: e -= 1" entered at hi ends.
TrailStart(s, hi, drop) ==
  CHOOSE e \in 0 .. hi :
    /\ e = 0 \/ At(s, e - 1) \notin drop
    /\ \A m \in e .. hi - 1 : At(s, m) \in drop

\* The first position p >= i with s[p] not white space (len(s) when none).
SkipSpace(s, i) == FirstNotIn(s, i, SpaceSet)

\* The least e such that s[e:] is all white space.
SkipSpaceBack(s, e) == TrailStart(s, e, SpaceSet)

\* str.lstrip
LStrip(s) == Slice(s, SkipSpace(s, 0), Len(s))

\* str.strip
Strip(s) == LET a == SkipSpace(s, 0)
            IN  IF a >= Len(s) THEN <<>> ELSE Slice(s, a, SkipSpaceBack(s, Len(s)))

\* str.rstrip(",")
RStripCommas(s) == Slice(s, 0, TrailStart(s, Len(s), {","}))

\* str.find(c, i) for a single character c: the first position >= i, or -1.
Find(s, c, i) ==
  LET k == FirstIn(s, i, {c})
  IN  IF k >= Len(s) THEN -1 ELSE k

\* s[i:].startswith(t)
StartsWithAt(s, t, i) == i + Len(t) <= Len(s) /\ Slice(s, i, i + Len(t)) = t

\* str.startswith
StartsWith(s, t) == StartsWithAt(s, t, 0)

\* str.endswith
EndsWith(s, t) == Len(t) <= Len(s) /\ Slice(s, Len(s) - Len(t), Len(s)) = t

\* The comparison s < t of two str values: by the code points at the first
\* position where they differ, a proper prefix being the smaller.
StrLess(s, t) ==
  LET n == Min2(Len(s), Len(t))
      d == CHOOSE k \in 1 .. n + 1 :
             /\ k = n + 1 \/ s[k] # t[k]
             /\ \A m \in 1 .. k - 1 : s[m] = t[m]
  IN  IF d = n + 1 THEN Len(s) < Len(t) ELSE Ord(s[d]) < Ord(t[d])

\* str.join(sep, parts)
RECURSIVE Join(_, _)
Join(sep, parts) ==
  IF parts = <<>> THEN <<>>
  ELSE IF Len(parts) = 1 THEN parts[1]
  ELSE parts[1] \o sep \o Join(sep, Tail(parts))

(***************************************************************************)
(* _strip_outer_braces and _clean_tex                                      *)
(***************************************************************************)
\* The mutant of _strip_outer_braces that removes one trailing comma only.
StripOuterOneComma(value) ==
  LET s == Strip(value)
      v == IF Len(s) > 0 /\ s[Len(s)] = "," THEN SubSeq(s, 1, Len(s) - 1) ELSE s
  IN  IF Len(v) >= 2 /\ (   (v[1] = "{" /\ v[Len(v)] = "}")
                         \/ (v[1] = "\"" /\ v[Len(v)] = "\""))
      THEN Strip(SubSeq(v, 2, Len(v) - 1))
      ELSE v

_strip_outer_braces(value) ==
  LET v == RStripCommas(Strip(value))
  IN  IF Len(v) >= 2 /\ (   (v[1] = "{" /\ v[Len(v)] = "}")
                         \/ (v[1] = "\"" /\ v[Len(v)] = "\""))
      THEN Strip(SubSeq(v, 2, Len(v) - 1))
      ELSE v

\* The positions of s, in order.
Positions(s) == [k \in 1 .. Len(s) |-> k - 1]

\* re.sub(r"\s+", " ", s): each maximal run of white space becomes one space.
CollapseSpace(s) ==
  LET idx == SelectSeq(Positions(s),
                       LAMBDA k : ~(IsSpace(At(s, k)) /\ k > 0 /\ IsSpace(At(s, k - 1))))
  IN  [m \in 1 .. Len(idx) |-> IF IsSpace(At(s, idx[m])) THEN " " ELSE At(s, idx[m])]

BraceSet == {"{", "}"}

IsBrace(c) == c \in BraceSet

\* The first position p >= i with s[p] a brace (len(s) when none).
SkipNonBrace(s, i) == FirstIn(s, i, BraceSet)

\* The position of the last brace before position e, or -1.
PrevBrace(s, e) ==
  CHOOSE k \in -1 .. e - 1 :
    /\ k = -1 \/ IsBrace(At(s, k))
    /\ \A m \in k + 1 .. e - 1 : ~IsBrace(At(s, m))

\* s[k] is the "{" of a match of \{([^{}]+)\}: the next brace is a "}" and
\* at least one character lies between them.
OpensMatch(s, k) ==
  LET e == SkipNonBrace(s, k + 1)
  IN  At(s, k) = "{" /\ e > k + 1 /\ e < Len(s) /\ At(s, e) = "}"

\* s[e] is the "}" of a match.
ClosesMatch(s, e) ==
  LET k == PrevBrace(s, e)
  IN  At(s, e) = "}" /\ k >= 0 /\ OpensMatch(s, k)

\* re.sub(r"\{([^{}]+)\}", r"\1", s): a match holds no brace inside, so the
\* matches cannot overlap and each loses exactly its two braces.
Unprotect(s) ==
  LET idx == SelectSeq(Positions(s), LAMBDA k : ~OpensMatch(s, k) /\ ~ClosesMatch(s, k))
  IN  [m \in 1 .. Len(idx) |-> At(s, idx[m])]

_clean_tex(value) == Strip(Unprotect(CollapseSpace(value)))

(***************************************************************************)
(* _parse_value                                                            *)
(***************************************************************************)
\* The depth after the characters text[a..k] when it is d before them.
DepthAfter(text, a, k, d) ==
  d + Cardinality({m \in a .. k : At(text, m) = "{"})
    - Cardinality({m \in a .. k : At(text, m) = "}"})

\* The braced branch's loop (lines 58-69), entered at the "{" at i with depth
\* 0: the position after the "}" at which the depth is 0 again, or len(text).
ScanBraced(text, i) ==
  LET Closes(k) == At(text, k) = "}" /\ DepthAfter(text, i, k, 0) = 0
      k == CHOOSE k \in i .. Len(text) :
             /\ k = Len(text) \/ Closes(k)
             /\ \A m \in i .. k - 1 : ~Closes(m)
  IN  IF k = Len(text) THEN k ELSE k + 1

\* escaped at position k of the quoted branch's loop entered at start: the
\* backslashes just before k, from start on, are odd in number (each one
\* that is not itself escaped escapes the next character).
Escaped(text, start, k) ==
  (k - Max2(start, TrailStart(text, k, {"\\"}))) % 2 = 1

\* The quoted branch's loop (lines 76-86): the position of the closing
\* quote, or len(text).
ScanQuoted(text, start) ==
  CHOOSE k \in start .. Len(text) :
    /\ k = Len(text) \/ (At(text, k) = "\"" /\ ~Escaped(text, start, k))
    /\ \A m \in start .. k - 1 : ~(At(text, m) = "\"" /\ ~Escaped(text, start, m))

\* The bareword branch's loop (lines 91-92).
ScanBare(text, i) == FirstIn(text, i, {",", "\n", "\r", "}"})

\* _parse_value(text, i) = (value, i)
_parse_value(text, i0) ==
  LET n == Len(text)
      i == SkipSpace(text, i0)
  IN  IF i >= n THEN [value |-> <<>>, i |-> i]
      ELSE IF At(text, i) = "{"
           THEN LET e == ScanBraced(text, i)
                IN  [value |-> Strip(Slice(text, i, e)), i |-> e]
      ELSE IF At(text, i) = "\""
           THEN LET q == ScanQuoted(text, i + 1)
                IN  [value |-> <<"\"">> \o Slice(text, i + 1, q) \o <<"\"">>,
                     i |-> IF q < n THEN q + 1 ELSE q]
      ELSE LET e == ScanBare(text, i)
           IN  [value |-> Strip(Slice(text, i, e)), i |-> e]

(***************************************************************************)
(* parse_bibtex                                                            *)
(***************************************************************************)
LineEndSet == {"\n", "\r", "\f"}

\* str.splitlines from the line that starts at start on: a line ends at
\* "\r\n", "\n", "\r" or "\f", and a text that ends with a line end has no
\* empty last line.
RECURSIVE SplitLinesFrom(_, _)
SplitLinesFrom(s, start) ==
  LET e == FirstIn(s, start, LineEndSet)
      next == IF At(s, e) = "\r" /\ e + 1 < Len(s) /\ At(s, e + 1) = "\n"
              THEN e + 2 ELSE e + 1
  IN  IF start >= Len(s) THEN <<>>
      ELSE IF e >= Len(s) THEN <<Slice(s, start, Len(s))>>
      ELSE <<Slice(s, start, e)>> \o SplitLinesFrom(s, next)

splitlines(s) == SplitLinesFrom(s, 0)

\* not line.lstrip().startswith("%")
NotComment(line) == ~StartsWith(LStrip(line), <<"%">>)

\* Line 100: drop the full-line comments and join the lines with "\n".
DropComments(raw) == Join(<<"\n">>, SelectSeq(splitlines(raw), NotComment))

SkipAlpha(s, i) == FirstNotIn(s, i, AlphaSet)

SkipNameChars(s, i) == FirstNotIn(s, i, NameCharSet)

\* re.match(r"([A-Za-z]+)\s*\{", raw[i:]): group is group(1), end the
\* position in raw after the match (i + m.end(0)).
MatchHeader(raw, i) ==
  LET a == SkipAlpha(raw, i)
      w == SkipSpace(raw, a)
  IN  IF a > i /\ w < Len(raw) /\ At(raw, w) = "{"
      THEN [ok |-> TRUE, group |-> Slice(raw, i, a), end |-> w + 1]
      ELSE [ok |-> FALSE, group |-> <<>>, end |-> i]

\* re.match(r"([A-Za-z][A-Za-z0-9_\-]*)\s*=", text[j:])
MatchName(text, j) ==
  LET a == IF j < Len(text) /\ IsAlpha(At(text, j)) THEN SkipNameChars(text, j + 1) ELSE j
      w == SkipSpace(text, a)
  IN  IF a > j /\ w < Len(text) /\ At(text, w) = "="
      THEN [ok |-> TRUE, group |-> Slice(text, j, a), end |-> w + 1]
      ELSE [ok |-> FALSE, group |-> <<>>, end |-> j]

\* Lines 126-132: the position at which the loop over the entry's body stops:
\* after the first character that brings the depth (1 at i) to 0, or
\* len(raw).
ScanBlock(raw, i) ==
  LET Closes(k) == At(raw, k) = "}" /\ DepthAfter(raw, i, k, 1) = 0
      k == CHOOSE k \in i .. Len(raw) :
             /\ k = Len(raw) \/ Closes(k)
             /\ \A m \in i .. k - 1 : ~Closes(m)
  IN  IF k = Len(raw) THEN k ELSE k + 1

\* The mutant of ResumeAfterAt that resumes at the "@" itself.
ResumeAtSame(at) == at

\* The position the scan resumes from after an "@" whose header does not
\* match (line 108 has already moved past the "@").
ResumeAfterAt(at) == at + 1

\* Which way one iteration of the loop of lines 104-133 goes: "no_at" (line
\* 107), "no_header" (line 113), "no_comma" (line 120) or "entry".
ScanKind(raw, i) ==
  LET at == Find(raw, "@", i)
      m  == MatchHeader(raw, at + 1)
  IN  IF at = -1 THEN "no_at"
      ELSE IF ~m.ok THEN "no_header"
      ELSE IF Find(raw, ",", m.end) = -1 THEN "no_comma"
      ELSE "entry"

\* The scan position after an iteration that finds no entry.
ScanSkip(raw, i) ==
  LET at == Find(raw, "@", i)
      m  == MatchHeader(raw, at + 1)
  IN  IF at = -1 THEN i
      ELSE IF ~m.ok THEN ResumeAfterAt(at)
      ELSE m.end

\* Lines 114-133 of an iteration that finds an entry: i is the scan position
\* after it.
ScanStep(raw, i) ==
  LET at == Find(raw, "@", i)
      m  == MatchHeader(raw, at + 1)
      comma == Find(raw, ",", m.end)
      start == comma + 1
      stop  == ScanBlock(raw, start)
  IN  [i |-> stop, entry_type |-> Lower(m.group),
       citekey |-> Strip(Slice(raw, m.end, comma)),
       fields_text_start |-> start,
       fields_text |-> Slice(raw, start, stop - 1)]

\* Lines 139-140: skip white space and commas.
SkipSeparators(text, j) == FirstNotIn(text, j, {"\n", "\r", "\t", " ", ","})

\* Lines 156-159: move to the next comma, stopping at a line feed.
SkipToComma(text, j) == FirstIn(text, j, {",", "\n"})

EmptyFields == [k \in {} |-> <<>>]

\* fields[name] = v
Put(fields, name, v) ==
  [k \in DOMAIN fields \cup {name} |-> IF k = name THEN v ELSE fields[k]]

\* Lines 152-153: store the cleaned value when the raw value is not empty.
StoreField(fields, name, value) ==
  IF value # <<>> THEN Put(fields, name, _clean_tex(_strip_outer_braces(value)))
  ELSE fields

\* Which way one iteration of the field loop (lines 137-161), entered with
\* j < len(fields_text), goes: "end" (line 142), "no_name" (line 147) or
\* "field".
FieldKind(text, j) ==
  LET j1 == SkipSeparators(text, j)
  IN  IF j1 >= Len(text) THEN "end"
      ELSE IF ~MatchName(text, j1).ok THEN "no_name"
      ELSE "field"

\* Lines 148-161 of an iteration that parses a field.
FieldIter(text, j, fields) ==
  LET m  == MatchName(text, SkipSeparators(text, j))
      pv == _parse_value(text, m.end)
      j3 == SkipToComma(text, pv.i)
      j4 == IF j3 < Len(text) /\ At(text, j3) = "," THEN j3 + 1 ELSE j3
  IN  [j |-> j4, value |-> pv.value,
       fields |-> StoreField(fields, Lower(m.group), pv.value)]

\* The field loop from position j on: the final field map.
RECURSIVE ParseFields(_, _, _)
ParseFields(text, j, fields) ==
  IF j >= Len(text) \/ FieldKind(text, j) # "field" THEN fields
  ELSE LET r == FieldIter(text, j, fields)
       IN  ParseFields(text, r.j, r.fields)

\* The loop of lines 104-163 from position i on.
RECURSIVE ParseFrom(_, _)
ParseFrom(raw, i) ==
  IF i >= Len(raw) \/ ScanKind(raw, i) \in {"no_at", "no_comma"} THEN <<>>
  ELSE IF ScanKind(raw, i) = "no_header" THEN ParseFrom(raw, ScanSkip(raw, i))
  ELSE LET r == ScanStep(raw, i)
       IN  <<[entry_type |-> r.entry_type, citekey |-> r.citekey,
              fields |-> ParseFields(r.fields_text, 0, EmptyFields)]>>
           \o ParseFrom(raw, r.i)

parse_bibtex(raw) == ParseFrom(DropComments(raw), 0)

(***************************************************************************)
(* entry_to_publication                                                    *)
(***************************************************************************)
K_title == <<"t","i","t","l","e">>

K_author == <<"a","u","t","h","o","r">>

K_year == <<"y","e","a","r">>

K_journal == <<"j","o","u","r","n","a","l">>

K_booktitle == <<"b","o","o","k","t","i","t","l","e">>

K_publisher == <<"p","u","b","l","i","s","h","e","r">>

K_school == <<"s","c","h","o","o","l">>

K_doi == <<"d","o","i">>

K_url == <<"u","r","l">>

\* dict.get(k, default)
Get(f, k, default) == IF k \in DOMAIN f THEN f[k] ELSE default

\* The first position k >= i with s[k:] starting with sep, or len(s).
FindSub(s, sep, i) ==
  IF i >= Len(s) THEN Len(s)
  ELSE CHOOSE k \in i .. Len(s) :
         /\ k = Len(s) \/ StartsWithAt(s, sep, k)
         /\ \A m \in i .. k - 1 : ~StartsWithAt(s, sep, m)

\* str.split(sep) from the piece that starts at start on.
RECURSIVE SplitFrom(_, _, _)
SplitFrom(s, sep, start) ==
  LET k == FindSub(s, sep, start)
  IN  IF k >= Len(s) THEN <<Slice(s, start, Len(s))>>
      ELSE <<Slice(s, start, k)>> \o SplitFrom(s, sep, k + Len(sep))

Split(s, sep) == SplitFrom(s, sep, 0)

\* [a.strip() for a in pieces if a.strip()]
RECURSIVE StripNonEmpty(_)
StripNonEmpty(pieces) ==
  IF pieces = <<>> THEN <<>>
  ELSE (IF Strip(pieces[1]) # <<>> THEN <<Strip(pieces[1])>> ELSE <<>>)
       \o StripNonEmpty(Tail(pieces))

\* The mutant of Authors that does not split the field.
AuthorsUnsplit(authors_raw) ==
  IF authors_raw # <<>> THEN <<Strip(authors_raw)>> ELSE <<>>

\* Line 173.
Authors(authors_raw) ==
  IF authors_raw # <<>> THEN StripNonEmpty(Split(authors_raw, <<" ","a","n","d"," ">>)) ELSE <<>>

FourDigitsAt(s, i) ==
  i + 4 <= Len(s) /\ \A k \in i .. i + 3 : IsDigit(At(s, k))

\* re.findall(r"\d{4}", s) from position i on: the matches, left to right,
\* not overlapping.
RECURSIVE FindAll4(_, _)
FindAll4(s, i) ==
  LET k == IF i >= Len(s) THEN Len(s)
           ELSE CHOOSE k \in i .. Len(s) :
                  /\ k = Len(s) \/ FourDigitsAt(s, k)
                  /\ \A m \in i .. k - 1 : ~FourDigitsAt(s, m)
  IN  IF k >= Len(s) THEN <<>>
      ELSE <<Slice(s, k, k + 4)>> \o FindAll4(s, k + 4)

\* int(ds) for a text of decimal digits.
RECURSIVE IntOf(_)
IntOf(ds) ==
  IF ds = <<>> THEN 0
  ELSE 10 * IntOf(SubSeq(ds, 1, Len(ds) - 1)) + DigitVal(ds[Len(ds)])

\* The mutant of PickMatch that takes the last match.
PickLastMatch(matches) == matches[Len(matches)]

\* The match of re.findall that line 179 takes.
PickMatch(matches) == matches[1]

\* Lines 175-181: <<>> is None, <<y>> the year y. Indexing an empty list of
\* matches raises, and the except clause leaves None.
Year(year_str) ==
  LET matches == FindAll4(year_str, 0)
  IN  IF year_str = <<>> \/ matches = <<>> THEN <<>>
      ELSE <<IntOf(PickMatch(matches))>>

\* x or y
Or(x, y) == IF x # <<>> THEN x ELSE y

\* Lines 183-189.
Venue(f) ==
  Strip(Or(Get(f, K_journal, <<>>),
        Or(Get(f, K_booktitle, <<>>),
        Or(Get(f, K_publisher, <<>>),
        Or(Get(f, K_school, <<>>), <<>>)))))

LinkKey(k) == IF k = "doi" THEN K_doi ELSE K_url

\* The mutant of HasLink that asks only whether the field is present.
HasLinkKey(f, k) == LinkKey(k) \in DOMAIN f

\* if f.get(k): the field is present and not empty.
HasLink(f, k) == Get(f, LinkKey(k), <<>>) # <<>>

\* Lines 191-195.
Links(f) == [k \in {x \in {"doi", "url"} : HasLink(f, x)} |-> Strip(f[LinkKey(k)])]

\* Lines 206-214: the keys that stay in the record.
KeptKeys(authors, year, venue, links) ==
  {"title", "type"}
    \cup (IF authors # <<>> THEN {"authors"} ELSE {})
    \cup (IF year # <<>> THEN {"year"} ELSE {})
    \cup (IF venue # <<>> THEN {"venue"} ELSE {})
    \cup (IF DOMAIN links # {} THEN {"links"} ELSE {})

entry_to_publication(e) ==
  LET f == e.fields
      title == Strip(Get(f, K_title, <<>>))
      authors == Authors(Get(f, K_author, <<>>))
      year == Year(Strip(Get(f, K_year, <<>>)))
      venue == Venue(f)
      links == Links(f)
  IN  [k \in KeptKeys(authors, year, venue, links) |->
         CASE k = "title" -> title
           [] k = "authors" -> authors
           [] k = "year" -> year[1]
           [] k = "venue" -> venue
           [] k = "type" -> e.entry_type
           [] k = "links" -> links]

(***************************************************************************)
(* main: the sort                                                          *)
(***************************************************************************)
\* The mutant of YearKey that sorts the years upwards.
YearKeyAscending(year) == year

\* The first component of sort_key for a record with a year.
YearKey(year) == 0 - year

\* Lines 231-234: p.get("year", 0) is an int in both cases.
sort_key(p) ==
  <<IF "year" \in DOMAIN p THEN YearKey(p["year"]) ELSE 0, Lower(p["title"])>>

\* a < b for two keys (tuple comparison).
KeyLess(a, b) == a[1] < b[1] \/ (a[1] = b[1] /\ StrLess(a[2], b[2]))

\* Insert p after every record of the sorted ps whose key is not greater.
RECURSIVE InsertStable(_, _)
InsertStable(ps, p) ==
  IF ps = <<>> THEN <<p>>
  ELSE IF KeyLess(sort_key(p), sort_key(ps[1])) THEN <<p>> \o ps
  ELSE <<ps[1]>> \o InsertStable(Tail(ps), p)

\* Line 236: list.sort(key=sort_key), a stable sort.
RECURSIVE SortPubs(_)
SortPubs(ps) ==
  IF ps = <<>> THEN <<>>
  ELSE InsertStable(SortPubs(SubSeq(ps, 1, Len(ps) - 1)), ps[Len(ps)])

\* The mutant of IsJsonPath that compares the suffix as written.
IsJsonPathExactCase(outp) == EndsWith(outp, <<".","j","s","o","n">>)

\* Line 243: outp.lower().endswith(".json")
IsJsonPath(outp) == EndsWith(Lower(outp), <<".","j","s","o","n">>)

\* Line 244: outp[:-5] + ".js"
JsPath(outp) == Slice(outp, 0, Len(outp) - 5) \o <<".","j","s">>

(***************************************************************************)
(* The runs of main that are explored: the text of the input file and the  *)
(* output path.                                                            *)
(***************************************************************************)
\* @article{k1, title={B}, year={2020}}\n
E1 ==
  <<"@","a","r","t","i","c","l","e","{","k","1",","," ","t","i","t","l","e",
    "=","{","B","}",","," ","y","e","a","r","=","{","2","0","2","0","}","}",
    "\n">>

\* @article{k2, title={A}, year={2022}}\n
E2 ==
  <<"@","a","r","t","i","c","l","e","{","k","2",","," ","t","i","t","l","e",
    "=","{","A","}",","," ","y","e","a","r","=","{","2","0","2","2","}","}",
    "\n">>

\* @misc{k3, title={C}}\n
E3 ==
  <<"@","m","i","s","c","{","k","3",","," ","t","i","t","l","e","=","{","C",
    "}","}","\n">>

\* @misc{k4, title={b}, year={2020}}\n
E4 ==
  <<"@","m","i","s","c","{","k","4",","," ","t","i","t","l","e","=","{","b",
    "}",","," ","y","e","a","r","=","{","2","0","2","0","}","}","\n">>

\* @misc{k5, title={a}, year={0000}}\n
E5 ==
  <<"@","m","i","s","c","{","k","5",","," ","t","i","t","l","e","=","{","a",
    "}",","," ","y","e","a","r","=","{","0","0","0","0","}","}","\n">>

\* Entries with and without a year, for the sort.
SortFragments == <<E1, E2, E3, E4, E5>>

\* @{x}\n
G1 ==
  <<"@","{","x","}","\n">>

\* @a{k}\n
G2 ==
  <<"@","a","{","k","}","\n">>

\* @a{k,t={x},!,u={y}}\n
G3 ==
  <<"@","a","{","k",",","t","=","{","x","}",",","!",",","u","=","{","y","}",
    "}","\n">>

\* @b{k2,title={T}}\n
G4 ==
  <<"@","b","{","k","2",",","t","i","t","l","e","=","{","T","}","}","\n">>

\* @a{k,title={A},title={}}\n
G5 ==
  <<"@","a","{","k",",","t","i","t","l","e","=","{","A","}",",","t","i","t",
    "l","e","=","{","}","}","\n">>

\* @a{k,t=xy
G6 ==
  <<"@","a","{","k",",","t","=","x","y">>

\* @a{k,t={a,,,}
G7 ==
  <<"@","a","{","k",",","t","=","{","a",",",",",",","}">>

\* @a{k,year={12345}}\n
G8 ==
  <<"@","a","{","k",",","y","e","a","r","=","{","1","2","3","4","5","}","}",
    "\n">>

\* @a{k,year={99},doi={ },url="u"}\n
G9 ==
  <<"@","a","{","k",",","y","e","a","r","=","{","9","9","}",",","d","o","i",
    "=","{"," ","}",",","u","r","l","=","\"","u","\"","}","\n">>

\*  % c\n
G10 ==
  <<" ","%"," ","c","\n">>

\* @a{k,t="a\\"b",journal={},booktitle={B {N}  b}}\n
G11 ==
  <<"@","a","{","k",",","t","=","\"","a","\\","\"","b","\"",",","j","o","u",
    "r","n","a","l","=","{","}",",","b","o","o","k","t","i","t","l","e","=",
    "{","B"," ","{","N","}"," "," ","b","}","}","\n">>

\* @a{k,author={X and  and Y},year=1999}\n
G12 ==
  <<"@","a","{","k",",","a","u","t","h","o","r","=","{","X"," ","a","n","d",
    " "," ","a","n","d"," ","Y","}",",","y","e","a","r","=","1","9","9","9",
    "}","\n">>

\* @A {k,Year = {in 2001 or 2002},\r\n  URL = {u} x\n}\n
G13 ==
  <<"@","A"," ","{","k",",","Y","e","a","r"," ","="," ","{","i","n"," ","2",
    "0","0","1"," ","o","r"," ","2","0","0","2","}",",","\r","\n"," "," ",
    "U","R","L"," ","="," ","{","u","}"," ","x","\n","}","\n">>

\* Well-formed and malformed pieces of BibTeX.
Fragments == <<G1, G2, G3, G4, G5, G6, G7, G8, G9, G10, G11, G12, G13>>

\* The most entries of SortFragments in one input text.
MaxEntries == 3

\* The most pieces of Fragments in one input text.
MaxFrags == 2

\* The largest len(sys.argv) explored.
MaxArgc == 4

RECURSIVE Concat(_)
Concat(parts) == IF parts = <<>> THEN <<>> ELSE parts[1] \o Concat(Tail(parts))

\* The texts made of at most max pieces of frags, in any order.
TextsOf(frags, max) ==
  UNION {{Concat([k \in 1 .. n |-> frags[c[k]]]) : c \in [1 .. n -> DOMAIN frags]}
         : n \in 0 .. max}

\* The values of the entries @type{key, title={T}, author={A1 and A2},
\* year={YYYY}, journal={J}, doi={D}} that are explored.
TypeValues == {<<"a","r","t","i","c","l","e">>,
  <<"B","o","o","k">>}

KeyValues == {<<"k","2","0","2","3">>}

TitleValues == {<<"A"," ","S","t","u","d","y">>,
  <<"A"," "," ","S","t","u","d","y">>}

Author1Values == {<<"A","."," ","O","n","e">>}

Author2Values == {<<"B","."," ","T","w","o">>}

YearValues == {<<"2","0","2","3">>,
  <<"0","9","8","7">>}

JournalValues == {<<"N","a","t","u","r","e">>}

DoiValues == {<<"1","0",".","1","/","x">>}

WellFormedParams ==
  [ty : TypeValues, key : KeyValues, T : TitleValues, A1 : Author1Values,
   A2 : Author2Values, Y : YearValues, J : JournalValues, D : DoiValues]

\* @type{key, title={T}, author={A1 and A2}, year={YYYY}, journal={J}, doi={D}}
WellFormedEntry(p) ==
  <<"@">> \o p.ty \o <<"{">> \o p.key
    \o <<","," ","t","i","t","l","e","=","{">> \o p.T
    \o <<"}",","," ","a","u","t","h","o","r","=","{">> \o p.A1 \o <<" ","a","n","d"," ">> \o p.A2
    \o <<"}",","," ","y","e","a","r","=","{">> \o p.Y
    \o <<"}",","," ","j","o","u","r","n","a","l","=","{">> \o p.J
    \o <<"}",","," ","d","o","i","=","{">> \o p.D \o <<"}", "}">>

Inputs ==
  TextsOf(SortFragments, MaxEntries) \cup TextsOf(Fragments, MaxFrags)
    \cup {WellFormedEntry(p) : p \in WellFormedParams}

DefaultOut == <<"p","u","b","s",".","j","s","o","n">>

OutPaths ==
  {<<"p","u","b","s",".","j","s","o","n">>,
   <<"p","u","b","s",".","J","S","O","N">>,
   <<"p","u","b","s",".","t","x","t">>,
   <<"p","u","b","s",".","j","s","o","n",".","b","a","k">>,
   <<".","J","s","o","n">>,
   <<"j","s","o","n">>}

\* Every input text with the default output path, two input texts with every
\* output path, and the wrong argument counts (the files are not opened then).
Runs ==
  {[argc |-> 3, text |-> t, outp |-> DefaultOut] : t \in Inputs}
    \cup {[argc |-> 3, text |-> t, outp |-> o] : t \in {<<>>, E1 \o E2 \o E3}, o \in OutPaths}
    \cup {[argc |-> a, text |-> <<>>, outp |-> <<>>] : a \in (1 .. MaxArgc) \ {3}}

(***************************************************************************)
(* main as a state machine: one run of the program, pc its position.       *)
(***************************************************************************)
VARIABLES
  argc,               \* len(sys.argv)
  inp_text,           \* the text of the file argv[1]
  outp,               \* argv[2]
  pc,                 \* the position in main / parse_bibtex
  raw,                \* parse_bibtex: the text without its comment lines
  i,                  \* parse_bibtex: the scan position in raw
  entries,            \* parse_bibtex: the entries found so far
  entry_type, citekey, fields_text_start, fields_text,   \* the entry in hand
  j,                  \* the position in fields_text
  fields,             \* the field map of the entry in hand
  value,              \* the raw value _parse_value returned last
  pubs,               \* main: the records
  files,              \* the files written, in order
  js_outp,            \* <<>> for None, <<path>> otherwise
  stdout,             \* what line 254 prints
  exit_code           \* <<>> while running, <<code>> at the end

vars ==
  <<argc, inp_text, outp, pc, raw, i, entries, entry_type, citekey,
    fields_text_start, fields_text, j, fields, value, pubs, files, js_outp,
    stdout, exit_code>>

inputVars == <<argc, inp_text, outp>>

entryVars == <<entry_type, citekey, fields_text_start, fields_text, j, fields, value>>

outVars == <<pubs, files, js_outp, stdout, exit_code>>

Init ==
  /\ \E run \in Runs :
       /\ argc = run.argc
       /\ inp_text = run.text
       /\ outp = run.outp
  /\ pc = "main"
  /\ raw = <<>>
  /\ i = 0
  /\ entries = <<>>
  /\ entry_type = <<>>
  /\ citekey = <<>>
  /\ fields_text_start = 0
  /\ fields_text = <<>>
  /\ j = 0
  /\ fields = EmptyFields
  /\ value = <<>>
  /\ pubs = <<>>
  /\ files = <<>>
  /\ js_outp = <<>>
  /\ stdout = <<>>
  /\ exit_code = <<>>

\* Lines 220-222: the wrong number of arguments.
Usage ==
  /\ pc = "main"
  /\ argc # 3
  /\ exit_code' = <<2>>
  /\ pc' = "done"
  /\ UNCHANGED <<inputVars, raw, i, entries, entryVars, pubs, files, js_outp, stdout>>

\* Lines 224-228 and 97-103: read the input, drop the comment lines.
ReadInput ==
  /\ pc = "main"
  /\ argc = 3
  /\ raw' = DropComments(inp_text)
  /\ i' = 0
  /\ entries' = <<>>
  /\ pc' = "scan"
  /\ UNCHANGED <<inputVars, entryVars, outVars>>

\* Line 104: the scan position has reached the end of the text.
ScanEnd ==
  /\ pc = "scan"
  /\ i >= Len(raw)
  /\ pc' = "project"
  /\ UNCHANGED <<inputVars, raw, i, entries, entryVars, outVars>>

\* Lines 105-107: no "@" is left.
ScanNoAt ==
  /\ pc = "scan"
  /\ i < Len(raw)
  /\ ScanKind(raw, i) = "no_at"
  /\ pc' = "project"
  /\ UNCHANGED <<inputVars, raw, i, entries, entryVars, outVars>>

\* Lines 108-113: the text after "@" is no entry header.
ScanNoHeader ==
  /\ pc = "scan"
  /\ i < Len(raw)
  /\ ScanKind(raw, i) = "no_header"
  /\ i' = ScanSkip(raw, i)
  /\ UNCHANGED <<inputVars, pc, raw, entries, entryVars, outVars>>

\* Lines 114-120: a header, whose type is kept, and no comma anywhere after it.
ScanNoComma ==
  /\ pc = "scan"
  /\ i < Len(raw)
  /\ ScanKind(raw, i) = "no_comma"
  /\ i' = ScanSkip(raw, i)
  /\ entry_type' = Lower(MatchHeader(raw, Find(raw, "@", i) + 1).group)
  /\ pc' = "project"
  /\ UNCHANGED <<inputVars, raw, entries, citekey, fields_text_start,
                 fields_text, j, fields, value, outVars>>

\* Lines 114-136: a header, the citekey and the field block.
ScanEntry ==
  /\ pc = "scan"
  /\ i < Len(raw)
  /\ ScanKind(raw, i) = "entry"
  /\ LET r == ScanStep(raw, i)
     IN  /\ i' = r.i
         /\ entry_type' = r.entry_type
         /\ citekey' = r.citekey
         /\ fields_text_start' = r.fields_text_start
         /\ fields_text' = r.fields_text
  /\ j' = 0
  /\ fields' = EmptyFields
  /\ pc' = "fields"
  /\ UNCHANGED <<inputVars, raw, entries, value, outVars>>

\* Lines 137-161: one field.
FieldStep ==
  /\ pc = "fields"
  /\ j < Len(fields_text)
  /\ FieldKind(fields_text, j) = "field"
  /\ LET r == FieldIter(fields_text, j, fields)
     IN  /\ j' = r.j
         /\ fields' = r.fields
         /\ value' = r.value
  /\ UNCHANGED <<inputVars, pc, raw, i, entries, entry_type, citekey,
                 fields_text_start, fields_text, outVars>>

\* Lines 137-147 and 163: the separators are skipped, the field loop ends,
\* the entry is appended.
FieldsDone ==
  /\ pc = "fields"
  /\ j >= Len(fields_text) \/ FieldKind(fields_text, j) # "field"
  /\ entries' = Append(entries, [entry_type |-> entry_type, citekey |-> citekey,
                                 fields |-> fields])
  /\ j' = SkipSeparators(fields_text, j)
  /\ pc' = "scan"
  /\ UNCHANGED <<inputVars, raw, i, entry_type, citekey, fields_text_start,
                 fields_text, fields, value, outVars>>

\* Line 229.
Project ==
  /\ pc = "project"
  /\ pubs' = [k \in 1 .. Len(entries) |-> entry_to_publication(entries[k])]
  /\ pc' = "sort"
  /\ UNCHANGED <<inputVars, raw, i, entries, entryVars, files, js_outp, stdout, exit_code>>

\* Lines 231-236.
Sort ==
  /\ pc = "sort"
  /\ pubs' = SortPubs(pubs)
  /\ pc' = "write_json"
  /\ UNCHANGED <<inputVars, raw, i, entries, entryVars, files, js_outp, stdout, exit_code>>

\* Lines 238-240: the JSON file (indent 2, a final line feed).
WriteJson ==
  /\ pc = "write_json"
  /\ files' = Append(files, [path |-> outp, format |-> "json", pubs |-> pubs])
  /\ pc' = "write_js"
  /\ UNCHANGED <<inputVars, raw, i, entries, entryVars, pubs, js_outp, stdout, exit_code>>

\* Lines 242-249: the .js file (a header line, "window.PUBLICATIONS = ",
\* the records as compact JSON, ";").
WriteJs ==
  /\ pc = "write_js"
  /\ IsJsonPath(outp)
  /\ js_outp' = <<JsPath(outp)>>
  /\ files' = Append(files, [path |-> JsPath(outp), format |-> "js", pubs |-> pubs])
  /\ pc' = "print"
  /\ UNCHANGED <<inputVars, raw, i, entries, entryVars, pubs, stdout, exit_code>>

\* Lines 242-243: the output path does not end in ".json".
SkipJs ==
  /\ pc = "write_js"
  /\ ~IsJsonPath(outp)
  /\ pc' = "print"
  /\ UNCHANGED <<inputVars, raw, i, entries, entryVars, outVars>>

\* Lines 251-255.
PrintDone ==
  /\ pc = "print"
  /\ stdout' = <<[count |-> Len(pubs), outp |-> outp, js_outp |-> js_outp]>>
  /\ exit_code' = <<0>>
  /\ pc' = "done"
  /\ UNCHANGED <<inputVars, raw, i, entries, entryVars, pubs, files, js_outp>>

Next ==
  \/ Usage
  \/ ReadInput
  \/ ScanEnd
  \/ ScanNoAt
  \/ ScanNoHeader
  \/ ScanNoComma
  \/ ScanEntry
  \/ FieldStep
  \/ FieldsDone
  \/ Project
  \/ Sort
  \/ WriteJson
  \/ WriteJs
  \/ SkipJs
  \/ PrintDone

Spec == Init /\ [][Next]_vars

(***************************************************************************)
(* Properties                                                              *)
(***************************************************************************)
\* The sort has run.
Sorted == pc \in {"write_json", "write_js", "print", "done"}

\* The records as projected, in the order of the entries.
Projected == [k \in 1 .. Len(entries) |-> entry_to_publication(entries[k])]

HasYear(p) == "year" \in DOMAIN p

\* The year of a record, 0 when it has none.
YearOr0(p) == IF HasYear(p) THEN p["year"] ELSE 0

\* Record a may stand before record b: a's year is later, or the years are
\* equal and a's title, in lower case, is not after b's.
InOrder(a, b) ==
  \/ YearOr0(a) > YearOr0(b)
  \/ YearOr0(a) = YearOr0(b) /\ ~StrLess(Lower(b["title"]), Lower(a["title"]))

SameRecords(ps, qs) ==
  /\ Len(ps) = Len(qs)
  /\ \A k \in 1 .. Len(ps) :
       Cardinality({m \in 1 .. Len(ps) : ps[m] = ps[k]})
         = Cardinality({m \in 1 .. Len(qs) : qs[m] = ps[k]})

\* The records of the example: years [2020, 2022, absent], titles B, A, C.
IsSortExample(ps) ==
  /\ Len(ps) = 3
  /\ HasYear(ps[1]) /\ ps[1]["year"] = 2020 /\ ps[1]["title"] = <<"B">>
  /\ HasYear(ps[2]) /\ ps[2]["year"] = 2022 /\ ps[2]["title"] = <<"A">>
  /\ ~HasYear(ps[3]) /\ ps[3]["title"] = <<"C">>

\* C1, as stated: after the sort the records are in order of year descending,
\* then title ascending without regard to case, every record with no year
\* stands before every record with a year, and the example is written as
\* [absent "C", 2022 "A", 2020 "B"].
C1_AbsentYearFirst ==
  Sorted =>
    /\ \A a, b \in 1 .. Len(pubs) :
         (a < b /\ HasYear(pubs[a]) /\ HasYear(pubs[b])) => InOrder(pubs[a], pubs[b])
    /\ \A a, b \in 1 .. Len(pubs) :
         (~HasYear(pubs[a]) /\ HasYear(pubs[b])) => a < b
    /\ IsSortExample(Projected) =>
         pubs = <<Projected[3], Projected[2], Projected[1]>>

\* C1, amended: after the sort the records are those projected, in order of
\* year descending with a missing year counted as 0, then title ascending
\* without regard to case; so a record with no year stands after every record
\* with a year above 0, and the example is written as
\* [2022 "A", 2020 "B", absent "C"].
C1_SortOrder ==
  Sorted =>
    /\ SameRecords(pubs, Projected)
    /\ \A a, b \in 1 .. Len(pubs) : a < b => InOrder(pubs[a], pubs[b])
    /\ \A a, b \in 1 .. Len(pubs) :
         (~HasYear(pubs[a]) /\ HasYear(pubs[b]) /\ pubs[b]["year"] > 0) => b < a
    /\ IsSortExample(Projected) =>
         pubs = <<Projected[2], Projected[1], Projected[3]>>

\* The example of C1 has been sorted.
C1_Witness == pc = "write_json" /\ IsSortExample(Projected)

\* C2: the scan position i and the field position j never pass the end of
\* their texts, every iteration of the scan loop that goes on leaves i
\* greater than it found it (the one whose "@" is followed by no entry header
\* as well as the one that finds an entry), and every iteration of the field
\* loop that goes on leaves j greater: so both loops end.
C2_Terminates ==
  /\ i <= Len(raw)
  /\ j <= Len(fields_text)
  /\ (pc = "scan" /\ i < Len(raw) /\ ScanKind(raw, i) = "no_header") =>
       (ScanSkip(raw, i) > i /\ ScanSkip(raw, i) <= Len(raw))
  /\ (pc = "scan" /\ i < Len(raw) /\ ScanKind(raw, i) = "entry") =>
       (ScanStep(raw, i).i > i /\ ScanStep(raw, i).i <= Len(raw))
  /\ (pc = "fields" /\ j < Len(fields_text) /\ FieldKind(fields_text, j) = "field") =>
       /\ FieldIter(fields_text, j, fields).j > j
       /\ FieldIter(fields_text, j, fields).j <= Len(fields_text)

\* An "@" with no entry header after it has been passed over.
C2_Witness ==
  /\ pc = "scan"
  /\ i > 0
  /\ At(raw, i - 1) = "@"
  /\ ~MatchHeader(raw, i).ok

\* No white space at either end.
Trimmed(s) == s # <<>> => (~IsSpace(s[1]) /\ ~IsSpace(s[Len(s)]))

\* C3: every record has "title" and "type"; it has "authors" only as a list,
\* not empty, of trimmed texts that are not empty, "year" only as an integer,
\* "venue" only as a text that is not empty, "links" only as a mapping that
\* is not empty, of "doi" and "url" to texts that are not empty.
C3_RecordShape ==
  \A k \in 1 .. Len(pubs) :
    LET p == pubs[k]
    IN  /\ {"title", "type"} \subseteq DOMAIN p
        /\ DOMAIN p \subseteq {"title", "authors", "year", "venue", "type", "links"}
        /\ "authors" \in DOMAIN p =>
             /\ Len(p["authors"]) > 0
             /\ \A a \in 1 .. Len(p["authors"]) :
                  p["authors"][a] # <<>> /\ Trimmed(p["authors"][a])
        /\ "year" \in DOMAIN p => p["year"] \in Nat
        /\ "venue" \in DOMAIN p => p["venue"] # <<>>
        /\ "links" \in DOMAIN p =>
             /\ DOMAIN p["links"] # {}
             /\ DOMAIN p["links"] \subseteq {"doi", "url"}
             /\ \A x \in DOMAIN p["links"] : p["links"][x] # <<>>

\* A record with links has been made from an entry whose doi field is empty.
C3_Witness ==
  /\ pc = "done"
  /\ \E k \in 1 .. Len(entries) :
       /\ K_doi \in DOMAIN entries[k].fields
       /\ entries[k].fields[K_doi] = <<>>
       /\ "links" \in DOMAIN Projected[k]

\* The entry of the well-formed piece G4.
G4Entry == [entry_type |-> <<"b">>, citekey |-> <<"k", "2">>,
            fields |-> (K_title :> <<"T">>)]

\* An "@" with no entry header (G1), an entry with no comma after its citekey
\* (G2), a field that is no name "=" (G3).
MalformedPieces == {<<>>, G1, G2, G3}

\* C4, as stated: a malformed piece before or after a well-formed entry costs
\* only the malformed piece; the well-formed entry is returned.
C4_WellFormedKept ==
  pc = "project" =>
    \A pre, post \in MalformedPieces :
      inp_text = pre \o G4 \o post => \E k \in 1 .. Len(entries) : entries[k] = G4Entry

\* The value of four decimal digits.
Decimal4(ds) ==
  1000 * DigitVal(ds[1]) + 100 * DigitVal(ds[2]) + 10 * DigitVal(ds[3]) + DigitVal(ds[4])

\* The record C5 states for @type{key, title={T}, author={A1 and A2},
\* year={YYYY}, journal={J}, doi={D}}.
StatedRecord(p) ==
  [title |-> p.T, authors |-> <<p.A1, p.A2>>, year |-> Decimal4(p.Y),
   venue |-> p.J, type |-> Lower(p.ty), links |-> [doi |-> p.D]]

\* A value with no brace that is not empty and whose white space is single
\* spaces between other characters.
PlainValue(v) ==
  /\ v # <<>>
  /\ \A k \in 1 .. Len(v) :
       /\ ~IsBrace(v[k])
       /\ IsSpace(v[k]) => (v[k] = " " /\ 1 < k /\ k < Len(v) /\ ~IsSpace(v[k + 1]))

PlainParams(p) ==
  /\ \A v \in {p.T, p.A1, p.A2, p.J, p.D} : PlainValue(v)
  /\ Split(p.A1 \o <<" ", "a", "n", "d", " ">> \o p.A2, <<" ", "a", "n", "d", " ">>)
       = <<p.A1, p.A2>>

\* C5, as stated: a well-formed entry whose braced values hold no braces
\* gives exactly the record of its values.
C5_RoundTrip ==
  pc = "done" =>
    \A p \in WellFormedParams :
      inp_text = WellFormedEntry(p) => pubs = <<StatedRecord(p)>>

\* C5, amended: a well-formed entry whose braced values hold no braces, are
\* not empty and hold white space only as single spaces between other
\* characters (the authors holding " and " only as their separator) gives
\* exactly the record of its values.
C5_RoundTripPlain ==
  pc = "done" =>
    \A p \in WellFormedParams :
      (inp_text = WellFormedEntry(p) /\ PlainParams(p)) => pubs = <<StatedRecord(p)>>

\* The k2023 example has been converted.
C5_Witness ==
  /\ pc = "done"
  /\ inp_text = WellFormedEntry(
       [ty |-> <<"a","r","t","i","c","l","e">>, key |-> <<"k","2","0","2","3">>,
        T |-> <<"A"," ","S","t","u","d","y">>, A1 |-> <<"A","."," ","O","n","e">>,
        A2 |-> <<"B","."," ","T","w","o">>, Y |-> <<"2","0","2","3">>,
        J |-> <<"N","a","t","u","r","e">>, D |-> <<"1","0",".","1","/","x">>])
  /\ Len(pubs) = 1

\* The path ends in ".json" in any mix of cases.
EndsJsonAnyCase(path) ==
  /\ Len(path) >= 5
  /\ path[Len(path) - 4] = "."
  /\ path[Len(path) - 3] \in {"j", "J"}
  /\ path[Len(path) - 2] \in {"s", "S"}
  /\ path[Len(path) - 1] \in {"o", "O"}
  /\ path[Len(path)] \in {"n", "N"}

\* C6: the .js file is written exactly when the output path ends in ".json"
\* in any mix of cases; its path is the output path with these five
\* characters replaced by ".js", it is written after the JSON file and holds
\* the same sorted records; pubs.JSON gives pubs.js, pubs.txt gives none.
C6_JsArtifact ==
  (pc = "done" /\ exit_code = <<0>>) =>
    /\ Len(files) >= 1
    /\ files[1] = [path |-> outp, format |-> "json", pubs |-> pubs]
    /\ Len(files) = (IF EndsJsonAnyCase(outp) THEN 2 ELSE 1)
    /\ js_outp # <<>> <=> EndsJsonAnyCase(outp)
    /\ EndsJsonAnyCase(outp) =>
         /\ files[2].format = "js"
         /\ files[2].path = SubSeq(outp, 1, Len(outp) - 5) \o <<".", "j", "s">>
         /\ files[2].pubs = files[1].pubs
         /\ js_outp = <<files[2].path>>
    /\ outp = <<"p","u","b","s",".","J","S","O","N">> =>
         files[2].path = <<"p","u","b","s",".","j","s">>
    /\ outp = <<"p","u","b","s",".","t","x","t">> => Len(files) = 1

\* pubs.JSON has given pubs.js.
C6_Witness ==
  /\ pc = "done"
  /\ outp = <<"p","u","b","s",".","J","S","O","N">>
  /\ Len(files) = 2
  /\ Len(files[2].pubs) = 3

\* The year field of an entry, as entry_to_publication reads it.
YearField(e) == Strip(Get(e.fields, K_year, <<>>))

DigitAt(s, k) == k >= 1 /\ k <= Len(s) /\ IsDigit(s[k])

\* The places of s at which a run of exactly four digits starts.
RunsOfExactly4(s) ==
  {a \in 1 .. Len(s) :
     /\ \A k \in a .. a + 3 : DigitAt(s, k)
     /\ ~DigitAt(s, a - 1)
     /\ ~DigitAt(s, a + 4)}

\* The places of s at which four digits in a row start.
FourDigitPlaces(s) == {a \in 1 .. Len(s) : \A k \in a .. a + 3 : DigitAt(s, k)}

Least(S) == CHOOSE x \in S : \A y \in S : x <= y

\* C7, as stated: a record has "year" exactly when the year field of its
\* entry holds a run of exactly four digits, and the year is the value of the
\* first such run.
C7_ExactRun ==
  pc = "sort" =>
    \A k \in 1 .. Len(entries) :
      LET s == YearField(entries[k])
          runs == RunsOfExactly4(s)
      IN  /\ HasYear(pubs[k]) <=> runs # {}
          /\ HasYear(pubs[k]) =>
               pubs[k]["year"] = Decimal4(SubSeq(s, Least(runs), Least(runs) + 3))

\* C7, amended: a record has "year" exactly when the year field of its entry
\* holds four digits in a row, and the year is the value of the first four
\* digits in a row (a longer run gives its first four digits).
C7_FirstFourDigits ==
  pc = "sort" =>
    \A k \in 1 .. Len(entries) :
      LET s == YearField(entries[k])
          places == FourDigitPlaces(s)
      IN  /\ HasYear(pubs[k]) <=> places # {}
          /\ HasYear(pubs[k]) =>
               pubs[k]["year"] = Decimal4(SubSeq(s, Least(places), Least(places) + 3))

\* A year field of five digits has given a year.
C7_Witness ==
  /\ pc = "sort"
  /\ \E k \in 1 .. Len(entries) :
       /\ YearField(entries[k]) = <<"1","2","3","4","5">>
       /\ HasYear(pubs[k])

\* C8, as stated: every key of a field map is in lower case and maps to a
\* value that is not empty (so an empty value such as title = {} is not
\* stored over an earlier one).
C8_NoEmptyValues ==
  \A k \in 1 .. Len(entries) :
    \A name \in DOMAIN entries[k].fields :
      name = Lower(name) /\ entries[k].fields[name] # <<>>

\* The position of the "}" from start on at which the depth, 1 at start, is
\* back to 0, or len(text) when there is none.
OuterClose(text, start) ==
  LET closes == {k \in start .. Len(text) - 1 :
                   /\ At(text, k) = "}"
                   /\ DepthAfter(text, start, k, 1) = 0}
  IN  IF closes = {} THEN Len(text) ELSE Least(closes)

\* C9, as stated: the field block is the text from the character after the
\* citekey's comma up to the outer closing brace, or up to the end of the
\* input when the entry is not closed.
C9_FieldBlock ==
  pc = "fields" =>
    fields_text = Slice(raw, fields_text_start, OuterClose(raw, fields_text_start))

\* The text is wrapped in a pair of braces or of quotes.
Delimited(t) ==
  /\ Len(t) >= 2
  /\ \/ t[1] = "{" /\ t[Len(t)] = "}"
     \/ t[1] = "\"" /\ t[Len(t)] = "\""

Unwrapped(t) == IF Delimited(t) THEN Strip(SubSeq(t, 2, Len(t) - 1)) ELSE t

\* C10, as stated: the raw value is stripped of the white space around it,
\* then of exactly one trailing comma, then of one pair of outer delimiters.
C10_OneComma ==
  value # <<>> =>
    LET s == Strip(value)
        t == IF s # <<>> /\ s[Len(s)] = "," THEN SubSeq(s, 1, Len(s) - 1) ELSE s
    IN  _strip_outer_braces(value) = Unwrapped(t)

\* C10, amended: the raw value is stripped of the white space around it, then
\* of all its trailing commas, then of one pair of outer delimiters when its
\* first and last characters are such a pair.
C10_AllCommas ==
  value # <<>> =>
    LET s == Strip(value)
    IN  \E n \in 0 .. Len(s) :
          /\ n = 0 \/ s[n] # ","
          /\ \A m \in n + 1 .. Len(s) : s[m] = ","
          /\ _strip_outer_braces(value) = Unwrapped(SubSeq(s, 1, n))

\* _parse_value has returned a value that ends in two commas or more.
C10_Witness ==
  /\ pc = "fields"
  /\ Len(value) >= 3
  /\ value[Len(value)] = ","
  /\ value[Len(value) - 1] = ","

=============================================================================
